---- MODULE Spec2Model ----
(***************************************************************************)
(* Model of package seq (BergerLab/seq): Plan7 HMM slicing (hmm.go),       *)
(* frequency profiles and their log-odds conversion (profile.go) and the   *)
(* global pairwise alignment exercised by sequence_align_test.go.          *)
(*                                                                         *)
(* Go slices are modelled as headers (arr, off, len, cap) over a heap of   *)
(* backing arrays; Go maps are modelled as references into a heap of       *)
(* tables, so that aliasing between values is visible.                     *)
(***************************************************************************)
EXTENDS Integers, Sequences, FiniteSets, TLC

VARIABLES
    arrays,   \* heap of backing arrays of HMMNode ([]HMMNode storage)
    heap,     \* heap of EProbs maps (map[Residue]Prob), indexed by reference
    hmms,     \* the *HMM values that exist, in order of creation
    parent,   \* parent[i] = index of the HMM that hmms[i] was sliced from, 0 if none
    hlast,    \* record of the last HMM operation and the deep state before it
    steps,    \* number of operations performed so far
    fp,       \* a *FrequencyProfile under construction
    nullfp,   \* the *FrequencyProfile used as null model
    prof,     \* the *Profile returned by the last fp.Profile(nullfp), or NoProfile
    flast,    \* record of the last profile operation and the state before it
    calls,    \* the Add calls made so far: on fp how many, the first s, all the
              \* same s; on nullfp how many
    nwA,      \* first argument of the NeedlemanWunsch call
    nwB,      \* second argument of the NeedlemanWunsch call
    nwOut     \* the Alignment it returned, NoAlignment before it returns

hvars == <<arrays, heap, hmms, parent, hlast, steps>>

fvars == <<fp, nullfp, prof, flast, calls>>

nvars == <<nwA, nwB, nwOut>>

vars == <<hvars, fvars, nvars>>

(***************************************************************************)
(* Bounds.                                                                 *)
(***************************************************************************)
MaxNodes == 2     \* largest len(hmm.Nodes) of the initial HMM
MaxSpare == 1     \* largest cap(hmm.Nodes) - len(hmm.Nodes) of the initial HMM
MaxSteps == 2     \* operations (Slice calls, table writes) per behaviour
MaxCols == 2      \* largest number of columns of a frequency profile
MaxAdds == 2      \* Add calls per behaviour
MaxSeqLen == 3    \* longest sequence given to NeedlemanWunsch

(***************************************************************************)
(* hmm.go: probabilities.                                                  *)
(***************************************************************************)
\* Prob(math.MaxFloat64): a value no computed probability takes.
MinProb == 1000000

\* invalidProb: Prob(math.NaN()), a value no parsed probability takes.
invalidProb == 2000000

\* strconv.ParseFloat on the decimal literals of the model: whether it
\* succeeds and the value it returns.
ParseFloatOk(fstr) == fstr \in {"0", "3"}

ParseFloat(fstr) == IF fstr = "0" THEN 0 ELSE 3

\* NewProb: "*" is MinProb, a float literal is its value, anything else is
\* invalidProb and an error.
NewProb(fstr) ==
    IF fstr = "*" THEN [p |-> MinProb, err |-> FALSE]
    ELSE IF ParseFloatOk(fstr) THEN [p |-> ParseFloat(fstr), err |-> FALSE]
    ELSE [p |-> invalidProb, err |-> TRUE]

\* A JSON value given to Prob.UnmarshalJSON: a JSON string, the literal
\* null, or anything else (a number, an array, an object, malformed bytes).
ProbDocs ==
    { [kind |-> "string", str |-> t] : t \in {"3", "x"} }
        \cup { [kind |-> "null", str |-> ""], [kind |-> "other", str |-> ""] }

\* json.Unmarshal(bs, &str) fails unless bs is a JSON string or null.
StrFails(bs) == bs.kind = "other"

\* The string json.Unmarshal leaves in str: null leaves it empty.
Str(bs) == IF bs.kind = "string" THEN bs.str ELSE ""

\* Prob.UnmarshalJSON on a Prob holding p: what it holds afterwards and
\* whether an error is returned. When json.Unmarshal fails p is left; else
\* the Prob is stored as NewProb returns it, also when NewProb fails.
ProbUnmarshalJSON(p, bs) ==
    IF StrFails(bs) THEN [p |-> p, err |-> TRUE]
    ELSE NewProb(Str(bs))

\* A JSON document given to EProbs.UnmarshalJSON: an object of members from
\* one-character keys to JSON values, the literal null, or anything else.
EProbsDocs ==
    { [kind |-> "other", members |-> <<>>],
      [kind |-> "null", members |-> <<>>],
      [kind |-> "object",
       members |-> [k \in {"A", "Z"} |->
                       [kind |-> "string", str |-> IF k = "A" THEN "*" ELSE "0"]]],
      [kind |-> "object",
       members |-> [k \in {"A"} |-> [kind |-> "string", str |-> "x"]]] }

\* json.Unmarshal(bs, &strmap) fails for a document that is neither an object
\* nor null, and when Prob.UnmarshalJSON fails on a member of an object.
StrmapFails(bs) ==
    \/ bs.kind = "other"
    \/ /\ bs.kind = "object"
       /\ \E k \in DOMAIN bs.members : ProbUnmarshalJSON(0, bs.members[k]).err

\* The map json.Unmarshal leaves in strmap: the members of an object, and
\* nothing (a nil map) for null.
Strmap(bs) ==
    IF bs.kind = "null" THEN <<>>
    ELSE [k \in DOMAIN bs.members |-> ProbUnmarshalJSON(0, bs.members[k]).p]

\* for k, v := range strmap { (*ep)[Residue(k[0])] = v } on table ep.
MergeStrmap(ep, strmap) ==
    [r \in DOMAIN ep \cup DOMAIN strmap |-> IF r \in DOMAIN strmap THEN strmap[r] ELSE ep[r]]

\* EProbs.UnmarshalJSON through a pointer to a field holding table reference
\* id: the reference the field holds afterwards and the table heap. A nil
\* table is allocated first; a document that fails to parse changes nothing.
EProbsUnmarshalJSON(hp, id, bs) ==
    IF StrmapFails(bs) THEN [id |-> id, heap |-> hp, err |-> TRUE]
    ELSE LET hp1 == IF id = 0 THEN Append(hp, <<>>) ELSE hp
             id1 == IF id = 0 THEN Len(hp) + 1 ELSE id
         IN [id |-> id1,
             heap |-> [hp1 EXCEPT ![id1] = MergeStrmap(@, Strmap(bs))],
             err |-> FALSE]

\* ep[r] = v on a Go map: the key is added when the map does not hold it.
MapStore(ep, r, v) == [x \in DOMAIN ep \cup {r} |-> IF x = r THEN v ELSE ep[x]]

\* The values callers store into emission tables.
WriteValues == {0}

HMMAlphabet == <<"A", "B">>

RECURSIVE SeqRange(_)
SeqRange(s) == IF s = <<>> THEN {} ELSE {Head(s)} \cup SeqRange(Tail(s))

\* NewEProbs: every residue of the alphabet mapped to MinProb.
NewEProbs(alphabet) == [r \in SeqRange(alphabet) |-> MinProb]

\* The zero value of TProbs.
ZeroTProbs == [MM |-> 0, MI |-> 0, MD |-> 0, IM |-> 0, II |-> 0, DM |-> 0, DD |-> 0]

\* The zero value of HMMNode, as produced by make([]HMMNode, n).
ZeroNode ==
    [HMM |-> 0, Residue |-> "", NodeNum |-> 0, InsEmit |-> 0, MatEmit |-> 0,
     Transitions |-> ZeroTProbs, NeffM |-> 0, NeffI |-> 0, NeffD |-> 0]

\* Transition tables the nodes of the initial HMM draw from.
TSet ==
    { [MM |-> 1, MI |-> 2, MD |-> 3, IM |-> 4, II |-> 5, DM |-> 6, DD |-> MinProb],
      [MM |-> 7, MI |-> MinProb, MD |-> 0, IM |-> 8, II |-> 9, DM |-> MinProb,
       DD |-> 0] }

(***************************************************************************)
(* Go slice primitives over the array heap.                                *)
(***************************************************************************)
\* make([]HMMNode, n) panics when n < 0.
MakePanics(n) == n < 0

\* make([]HMMNode, n): the array heap with a fresh zeroed array, and the
\* header of the slice over all of it.
Make(arrs, n) ==
    [arrays |-> Append(arrs, [i \in 1..n |-> ZeroNode]),
     nodes |-> [arr |-> Len(arrs) + 1, off |-> 0, len |-> n, cap |-> n]]

\* s[start:end] panics unless 0 <= start <= end <= cap(s).
SliceExprPanics(s, start, end) == start < 0 \/ end > s.cap \/ start > end

\* s[start:end]: same array, shifted header.
SliceExpr(s, start, end) ==
    [arr |-> s.arr, off |-> s.off + start, len |-> end - start, cap |-> s.cap - start]

\* s[i] panics unless 0 <= i < len(s).
IndexPanics(s, i) == i < 0 \/ i >= s.len

\* The element s[i] (i is a Go index, from 0).
At(arrs, s, i) == arrs[s.arr][s.off + i + 1]

Min(a, b) == IF a < b THEN a ELSE b

\* copy(dst, src): the first min(len(dst), len(src)) elements.
CopyNodes(arrs, dst, src) ==
    LET n == Min(dst.len, src.len)
    IN [arrs EXCEPT ![dst.arr] =
           [k \in 1..Len(arrs[dst.arr]) |->
               IF k - dst.off - 1 >= 0 /\ k - dst.off - 1 < n
               THEN At(arrs, src, k - dst.off - 1)
               ELSE arrs[dst.arr][k]]]

(***************************************************************************)
(* hmm.go: HMM.Slice.                                                      *)
(***************************************************************************)
\* The transitions Slice stores in the last node. The variant stores 0 for
\* I->I.
LastTransitionsBroken(t) ==
    [t EXCEPT !.MM = 0, !.MI = MinProb, !.MD = MinProb, !.IM = 0,
              !.II = 0, !.DM = 0, !.DD = MinProb]

LastTransitions(t) ==
    [t EXCEPT !.MM = 0, !.MI = MinProb, !.MD = MinProb, !.IM = 0,
              !.II = MinProb, !.DM = 0, !.DD = MinProb]

\* nodes[last].Transitions.X = ... for the seven fields.
SetLast(arrs, nodes, last) ==
    [arrs EXCEPT ![nodes.arr][nodes.off + last + 1].Transitions =
        LastTransitions(@)]

\* nodes := make([]HMMNode, end-start). The variant takes
\* nodes := hmm.Nodes[start:end] instead, which shares the source's array.
SliceTargetAliased(arrs, h, start, end) ==
    [arrays |-> arrs, nodes |-> SliceExpr(h.Nodes, start, end)]

SliceTarget(arrs, h, start, end) == Make(arrs, end - start)

\* Slice panics in make, in hmm.Nodes[start:end] or in nodes[last].
SlicePanics(h, start, end) ==
    \/ MakePanics(end - start)
    \/ SliceExprPanics(h.Nodes, start, end)
    \/ IndexPanics([len |-> end - start], end - start - 1)

\* The array heap after a Slice that does not panic.
SliceArrays(arrs, h, start, end) ==
    LET t == SliceTarget(arrs, h, start, end)
        copied == CopyNodes(t.arrays, t.nodes, SliceExpr(h.Nodes, start, end))
    IN SetLast(copied, t.nodes, t.nodes.len - 1)

\* The HMM a Slice that does not panic returns.
SliceHMM(arrs, h, start, end) ==
    [Nodes |-> SliceTarget(arrs, h, start, end).nodes,
     Alphabet |-> h.Alphabet,
     Null |-> h.Null]

(***************************************************************************)
(* Deep views: what a caller can read through an HMM.                      *)
(***************************************************************************)
TableOf(hp, id) == IF id = 0 THEN <<>> ELSE hp[id]

NodeView(hp, n) ==
    [HMM |-> n.HMM, Residue |-> n.Residue, NodeNum |-> n.NodeNum,
     InsEmit |-> TableOf(hp, n.InsEmit), MatEmit |-> TableOf(hp, n.MatEmit),
     Transitions |-> n.Transitions,
     NeffM |-> n.NeffM, NeffI |-> n.NeffI, NeffD |-> n.NeffD]

View(arrs, hp, h) ==
    [Nodes |-> [k \in 1..h.Nodes.len |-> NodeView(hp, At(arrs, h.Nodes, k - 1))],
     Alphabet |-> h.Alphabet,
     Null |-> TableOf(hp, h.Null)]

Views(arrs, hp, hs) == [i \in 1..Len(hs) |-> View(arrs, hp, hs[i])]

(***************************************************************************)
(* Initial HMM: NewHMM(nodes, alphabet, null) over a backing array that    *)
(* may be longer than the node list.                                       *)
(***************************************************************************)
InitNode(k, t) ==
    [HMM |-> 1, Residue |-> HMMAlphabet[((k - 1) % 2) + 1], NodeNum |-> k,
     InsEmit |-> 2 * k - 1, MatEmit |-> 2 * k,
     Transitions |-> t, NeffM |-> k, NeffI |-> k + 1, NeffD |-> k + 2]

InitTable(id) ==
    [r \in SeqRange(HMMAlphabet) |-> IF r = "A" THEN id ELSE MinProb]

\* The transition tables of the initial nodes: alternating between the two
\* tables of TSet.
InitTransitions(n) ==
    LET t1 == CHOOSE t \in TSet : t.MM = 1
        t2 == CHOOSE t \in TSet : t.MM = 7
    IN { [k \in 1..n |-> IF k % 2 = 1 THEN t1 ELSE t2] }

\* NewHMM stores its arguments.
NewHMM(nodes, alphabet, null) == [Nodes |-> nodes, Alphabet |-> alphabet, Null |-> null]

NoOp == [op |-> "none"]

NoProfile == [Emissions |-> <<>>, Alphabet |-> <<>>]

NoCalls == [n |-> 0, s |-> <<>>, same |-> TRUE, null |-> 0]

\* The values of the profile variables while the HMM is exercised.
FIdle ==
    /\ fp = [Freqs |-> <<>>, Alphabet |-> <<>>]
    /\ nullfp = [Freqs |-> <<>>, Alphabet |-> <<>>]
    /\ prof = NoProfile
    /\ flast = NoOp
    /\ calls = NoCalls

NoAlignment == [A |-> <<"?">>, B |-> <<"?">>]

\* The values of the alignment variables while other parts are exercised.
NIdle ==
    /\ nwA = <<>>
    /\ nwB = <<>>
    /\ nwOut = NoAlignment

HInit ==
    \E n \in 1..MaxNodes, spare \in 0..MaxSpare, hasNull \in BOOLEAN :
      \E ts \in InitTransitions(n + spare) :
        /\ arrays = << [k \in 1..(n + spare) |-> InitNode(k, ts[k])] >>
        /\ heap = [id \in 1..(2 * (n + spare) + 1) |-> InitTable(id)]
        /\ hmms = << NewHMM([arr |-> 1, off |-> 0, len |-> n, cap |-> n + spare],
                            HMMAlphabet,
                            IF hasNull THEN 2 * (n + spare) + 1 ELSE 0) >>
        /\ parent = <<0>>
        /\ hlast = NoOp
        /\ steps = 0
        /\ FIdle
        /\ NIdle

(***************************************************************************)
(* Actions.                                                                *)
(***************************************************************************)
\* h2 := hmms[i].Slice(start, end), returning normally.
SliceOk(i, start, end) ==
    /\ steps < MaxSteps
    /\ ~SlicePanics(hmms[i], start, end)
    /\ arrays' = SliceArrays(arrays, hmms[i], start, end)
    /\ hmms' = Append(hmms, SliceHMM(arrays, hmms[i], start, end))
    /\ parent' = Append(parent, i)
    /\ hlast' = [op |-> "slice", src |-> i, start |-> start, end |-> end,
                 ok |-> TRUE, res |-> Len(hmms) + 1,
                 srclen |-> hmms[i].Nodes.len,
                 before |-> Views(arrays, heap, hmms)]
    /\ steps' = steps + 1
    /\ UNCHANGED <<heap, fvars, nvars>>

\* hmms[i].Slice(start, end) panicking (recovered by the caller).
SlicePanic(i, start, end) ==
    /\ steps < MaxSteps
    /\ SlicePanics(hmms[i], start, end)
    /\ hlast' = [op |-> "slice", src |-> i, start |-> start, end |-> end,
                 ok |-> FALSE, res |-> 0,
                 srclen |-> hmms[i].Nodes.len,
                 before |-> Views(arrays, heap, hmms)]
    /\ steps' = steps + 1
    /\ UNCHANGED <<arrays, heap, hmms, parent, fvars, nvars>>

\* hmms[j].Nodes[k].MatEmit[r] = v or hmms[j].Nodes[k].InsEmit[r] = v.
WriteEmit(j, k, mat, r, v) ==
    LET node == At(arrays, hmms[j].Nodes, k)
        id == IF mat THEN node.MatEmit ELSE node.InsEmit
    IN /\ steps < MaxSteps
       /\ ~IndexPanics(hmms[j].Nodes, k)
       /\ id # 0
       /\ heap' = [heap EXCEPT ![id] = MapStore(@, r, v)]
       /\ steps' = steps + 1
       /\ hlast' = [op |-> "write", via |-> j,
                    before |-> Views(arrays, heap, hmms)]
       /\ UNCHANGED <<arrays, hmms, parent, fvars, nvars>>

\* hmms[j].Null[r] = v.
WriteNull(j, r, v) ==
    /\ steps < MaxSteps
    /\ hmms[j].Null # 0
    /\ heap' = [heap EXCEPT ![hmms[j].Null] = MapStore(@, r, v)]
    /\ steps' = steps + 1
    /\ hlast' = [op |-> "write", via |-> j,
                 before |-> Views(arrays, heap, hmms)]
    /\ UNCHANGED <<arrays, hmms, parent, fvars, nvars>>

\* (&hmms[j].Nodes[k].MatEmit).UnmarshalJSON(bs), or the same on InsEmit.
UnmarshalEmit(j, k, mat, bs) ==
    LET nodes == hmms[j].Nodes
        node == At(arrays, nodes, k)
        res == EProbsUnmarshalJSON(heap, IF mat THEN node.MatEmit ELSE node.InsEmit, bs)
    IN /\ steps < MaxSteps
       /\ ~IndexPanics(nodes, k)
       /\ heap' = res.heap
       /\ arrays' = IF mat
                     THEN [arrays EXCEPT ![nodes.arr][nodes.off + k + 1].MatEmit = res.id]
                     ELSE [arrays EXCEPT ![nodes.arr][nodes.off + k + 1].InsEmit = res.id]
       /\ steps' = steps + 1
       /\ hlast' = [op |-> "write", via |-> j,
                    before |-> Views(arrays, heap, hmms)]
       /\ UNCHANGED <<hmms, parent, fvars, nvars>>

\* (&hmms[j].Null).UnmarshalJSON(bs).
UnmarshalNull(j, bs) ==
    LET res == EProbsUnmarshalJSON(heap, hmms[j].Null, bs)
    IN /\ steps < MaxSteps
       /\ heap' = res.heap
       /\ hmms' = [hmms EXCEPT ![j].Null = res.id]
       /\ steps' = steps + 1
       /\ hlast' = [op |-> "write", via |-> j,
                    before |-> Views(arrays, heap, hmms)]
       /\ UNCHANGED <<arrays, parent, fvars, nvars>>

\* The transitions Prob.UnmarshalJSON is called on.
TFields == {"MM", "II"}

\* (&hmms[j].Nodes[k].Transitions.F).UnmarshalJSON(bs) for a field F.
UnmarshalProb(j, k, f, bs) ==
    LET nodes == hmms[j].Nodes
    IN /\ steps < MaxSteps
       /\ ~IndexPanics(nodes, k)
       /\ arrays' = [arrays EXCEPT ![nodes.arr][nodes.off + k + 1].Transitions[f] =
                         ProbUnmarshalJSON(@, bs).p]
       /\ steps' = steps + 1
       /\ hlast' = [op |-> "setprob", via |-> j,
                    before |-> Views(arrays, heap, hmms)]
       /\ UNCHANGED <<heap, hmms, parent, fvars, nvars>>

StartArgs(i) == (0 - 1)..hmms[i].Nodes.len

EndArgs(i) == 0..(hmms[i].Nodes.cap + 1)

NodeArgs(j) == 0..(hmms[j].Nodes.len - 1)

HNext ==
    \/ \E i \in 1..Len(hmms) : \E start \in StartArgs(i), end \in EndArgs(i) :
          SliceOk(i, start, end)
    \/ \E i \in 1..Len(hmms) : \E start \in StartArgs(i), end \in EndArgs(i) :
          SlicePanic(i, start, end)
    \/ \E j \in 1..Len(hmms) : \E k \in NodeArgs(j), mat \in BOOLEAN,
          r \in SeqRange(HMMAlphabet), v \in WriteValues : WriteEmit(j, k, mat, r, v)
    \/ \E j \in 1..Len(hmms), r \in SeqRange(HMMAlphabet), v \in WriteValues :
          WriteNull(j, r, v)
    \/ \E j \in 1..Len(hmms) : \E k \in NodeArgs(j), mat \in BOOLEAN,
          bs \in EProbsDocs : UnmarshalEmit(j, k, mat, bs)
    \/ \E j \in 1..Len(hmms), bs \in EProbsDocs : UnmarshalNull(j, bs)
    \/ \E j \in 1..Len(hmms) : \E k \in NodeArgs(j), f \in TFields,
          bs \in ProbDocs : UnmarshalProb(j, k, f, bs)

SpecHMM == HInit /\ [][HNext]_vars

(***************************************************************************)
(* profile.go: FrequencyProfile.                                           *)
(***************************************************************************)
Residues == {"A", "B", "X"}

Alphabets == { <<"A", "B">>, <<"A", "X">> }

\* NewFrequencyProfileAlphabet: every column maps every residue to 0.
NewFrequencyProfileAlphabet(columns, alphabet) ==
    [Freqs |-> [i \in 1..columns |-> [residue \in SeqRange(alphabet) |-> 0]],
     Alphabet |-> alphabet]

\* NewProfileAlphabet: every column is NewEProbs(alphabet).
NewProfileAlphabet(columns, alphabet) ==
    [Emissions |-> [i \in 1..columns |-> NewEProbs(alphabet)],
     Alphabet |-> alphabet]

\* column[r] on a Go map: the zero value for a missing key.
Count(column, r) == IF r \in DOMAIN column THEN column[r] ELSE 0

\* fp.Len() != s.Len(). The variant tests fp.Len() > s.Len().
LengthMismatchShort(p, s) == Len(p.Freqs) > Len(s)

LengthMismatch(p, s) == Len(p.Freqs) # Len(s)

\* _, ok := fp.Freqs[column][r]
Recognized(column, r) == r \in DOMAIN column

\* _, ok := fp.Freqs[column]['X']. The variant never falls back.
HasWildcardNever(column) == FALSE

HasWildcard(column) == "X" \in DOMAIN column

\* fp.Freqs[column][r] += 1. The variant adds 2.
IncrementTwice(column, r) == [column EXCEPT ![r] = @ + 2]

Increment(column, r) == [column EXCEPT ![r] = @ + 1]

\* The loop of Add from `column` on (a Go index, from 0): the columns when it
\* ends and whether it ended in the panic for an unrecognized residue.
RECURSIVE AddLoop(_, _, _)
AddLoop(freqs, s, column) ==
    IF column >= Len(freqs)
    THEN [Freqs |-> freqs, panic |-> "none"]
    ELSE LET r == s[column + 1]
         IN IF Recognized(freqs[column + 1], r)
            THEN AddLoop([freqs EXCEPT ![column + 1] = Increment(@, r)], s, column + 1)
            ELSE IF HasWildcard(freqs[column + 1])
            THEN AddLoop([freqs EXCEPT ![column + 1] = Increment(@, "X")], s, column + 1)
            ELSE [Freqs |-> freqs, panic |-> "residue"]

\* FrequencyProfile.Add: the profile after the call and the panic it ended in.
Add(p, s) ==
    IF LengthMismatch(p, s)
    THEN [fp |-> p, panic |-> "length"]
    ELSE LET l == AddLoop(p.Freqs, s, 0)
         IN [fp |-> [p EXCEPT !.Freqs = l.Freqs], panic |-> l.panic]

\* freqTotal: the sum of the counts of a column.
RECURSIVE SumOver(_, _)
SumOver(column, keys) ==
    IF keys = {} THEN 0
    ELSE LET k == CHOOSE x \in keys : TRUE
         IN column[k] + SumOver(column, keys \ {k})

freqTotal(column) == SumOver(column, DOMAIN column)

\* Alphabet.Equals: the same residues in the same order.
AlphabetEquals(a, b) == a = b

RECURSIVE GCD(_, _)
GCD(a, b) == IF b = 0 THEN a ELSE GCD(b, a % b)

\* -Prob(math.Log(prob / nullemit)) with prob = count/tot and
\* nullemit = nullcount/nulltot: the negated logarithm of the ratio
\* (count * nulltot) / (tot * nullcount). The ratio is kept as a reduced
\* fraction num/den and the score is written as the negative integer
\* -(1000 * num + den), which is not the value of MinProb.
LogOdds(count, tot, nullcount, nulltot) ==
    LET num == count * nulltot
        den == tot * nullcount
        g == GCD(num, den)
    IN IF g = 0 THEN 0 - 1 ELSE 0 - (1000 * (num \div g) + (den \div g))

\* null.Freqs[0][residue] == 0 || fp.Freqs[column][residue] == 0. The variant
\* tests the null count only.
UnobservedNullOnly(p, null, column, residue) ==
    Count(null.Freqs[1], residue) = 0

Unobserved(p, null, column, residue) ==
    Count(null.Freqs[1], residue) = 0 \/ Count(p.Freqs[column], residue) = 0

\* The emission Profile stores for a residue of a column (column from 1).
Emission(p, null, column, residue) ==
    IF Unobserved(p, null, column, residue)
    THEN MinProb
    ELSE LogOdds(Count(p.Freqs[column], residue), freqTotal(p.Freqs[column]),
                 Count(null.Freqs[1], residue), freqTotal(null.Freqs[1]))

\* The panic FrequencyProfile.Profile ends in, if any.
ProfilePanic(p, null) ==
    IF Len(null.Freqs) # 1 THEN "columns"
    ELSE IF ~AlphabetEquals(p.Alphabet, null.Alphabet) THEN "alphabet"
    ELSE "none"

\* FrequencyProfile.Profile when it does not panic.
Profile(p, null) ==
    LET np == NewProfileAlphabet(Len(p.Freqs), p.Alphabet)
    IN [np EXCEPT !.Emissions =
           [column \in 1..Len(p.Freqs) |->
               [residue \in DOMAIN np.Emissions[column] |->
                   IF residue \in SeqRange(p.Alphabet)
                   THEN Emission(p, null, column, residue)
                   ELSE np.Emissions[column][residue]]]]

\* The values of the HMM variables while profiles are exercised.
HIdle ==
    /\ arrays = <<>>
    /\ heap = <<>>
    /\ hmms = <<>>
    /\ parent = <<>>
    /\ hlast = NoOp
    /\ steps = 0

FInit ==
    \E n \in 1..MaxCols, m \in 1..MaxCols, a \in Alphabets, b \in Alphabets :
        /\ fp = NewFrequencyProfileAlphabet(n, a)
        /\ nullfp = NewFrequencyProfileAlphabet(m, b)
        /\ prof = NoProfile
        /\ flast = NoOp
        /\ calls = NoCalls
        /\ HIdle
        /\ NIdle

\* The sequences of residues of length n.
Seqs(n) == [1..n -> Residues]

\* The sequences Add is called with on a profile of n columns: every sequence
\* of the right length, one that is too short and one that is too long.
AddInputs(n) == Seqs(n) \cup { [i \in 1..(n - 1) |-> "A"], [i \in 1..(n + 1) |-> "A"] }

\* fp.Add(s), returning or panicking (recovered by the caller).
AddFP(s) ==
    LET res == Add(fp, s)
    IN /\ calls.n + calls.null < MaxAdds
       /\ fp' = res.fp
       /\ calls' = [n |-> calls.n + 1,
                    s |-> IF calls.n = 0 THEN s ELSE calls.s,
                    same |-> calls.same /\ (calls.n = 0 \/ s = calls.s),
                    null |-> calls.null]
       /\ flast' = [op |-> "add", target |-> "fp", s |-> s, panic |-> res.panic,
                    before |-> fp]
       /\ UNCHANGED <<nullfp, prof, hvars, nvars>>

\* nullfp.Add(s), returning or panicking (recovered by the caller).
AddNull(s) ==
    LET res == Add(nullfp, s)
    IN /\ calls.n + calls.null < MaxAdds
       /\ nullfp' = res.fp
       /\ flast' = [op |-> "add", target |-> "null", s |-> s, panic |-> res.panic,
                    before |-> nullfp]
       /\ calls' = [calls EXCEPT !.null = @ + 1]
       /\ UNCHANGED <<fp, prof, hvars, nvars>>

\* prof := fp.Profile(nullfp), returning normally.
ProfileOk ==
    /\ ProfilePanic(fp, nullfp) = "none"
    /\ prof' = Profile(fp, nullfp)
    /\ flast' = [op |-> "profile", panic |-> "none"]
    /\ UNCHANGED <<fp, nullfp, calls, hvars, nvars>>

\* fp.Profile(nullfp) panicking (recovered by the caller).
ProfileFail ==
    /\ ProfilePanic(fp, nullfp) # "none"
    /\ flast' = [op |-> "profile", panic |-> ProfilePanic(fp, nullfp)]
    /\ UNCHANGED <<fp, nullfp, prof, calls, hvars, nvars>>

FNext ==
    \/ \E s \in AddInputs(Len(fp.Freqs)) : AddFP(s)
    \/ \E s \in AddInputs(Len(nullfp.Freqs)) : AddNull(s)
    \/ ProfileOk
    \/ ProfileFail

SpecFP == FInit /\ [][FNext]_vars

(***************************************************************************)
(* NeedlemanWunsch: global pairwise alignment (the function under test in  *)
(* sequence_align_test.go).                                                *)
(***************************************************************************)
NWResidues == {"A", "N", "X"}

\* The residues of the BLOSUM62 matrix, in the order of its rows and columns.
BlosumOrder ==
    <<"A", "R", "N", "D", "C", "Q", "E", "G", "H", "I", "L", "K", "M",
      "F", "P", "S", "T", "W", "Y", "V", "B", "Z", "X">>

\* The BLOSUM62 substitution matrix, one row per residue of BlosumOrder.
Blosum62 ==
    <<
       <<4, 0 - 1, 0 - 2, 0 - 2, 0, 0 - 1, 0 - 1, 0, 0 - 2, 0 - 1, 0 - 1, 0 - 1, 0 - 1, 0 - 2, 0 - 1, 1, 0, 0 - 3, 0 - 2, 0, 0 - 2, 0 - 1, 0>>,
       <<0 - 1, 5, 0, 0 - 2, 0 - 3, 1, 0, 0 - 2, 0, 0 - 3, 0 - 2, 2, 0 - 1, 0 - 3, 0 - 2, 0 - 1, 0 - 1, 0 - 3, 0 - 2, 0 - 3, 0 - 1, 0, 0 - 1>>,
       <<0 - 2, 0, 6, 1, 0 - 3, 0, 0, 0, 1, 0 - 3, 0 - 3, 0, 0 - 2, 0 - 3, 0 - 2, 1, 0, 0 - 4, 0 - 2, 0 - 3, 3, 0, 0 - 1>>,
       <<0 - 2, 0 - 2, 1, 6, 0 - 3, 0, 2, 0 - 1, 0 - 1, 0 - 3, 0 - 4, 0 - 1, 0 - 3, 0 - 3, 0 - 1, 0, 0 - 1, 0 - 4, 0 - 3, 0 - 3, 4, 1, 0 - 1>>,
       <<0, 0 - 3, 0 - 3, 0 - 3, 9, 0 - 3, 0 - 4, 0 - 3, 0 - 3, 0 - 1, 0 - 1, 0 - 3, 0 - 1, 0 - 2, 0 - 3, 0 - 1, 0 - 1, 0 - 2, 0 - 2, 0 - 1, 0 - 3, 0 - 3, 0 - 2>>,
       <<0 - 1, 1, 0, 0, 0 - 3, 5, 2, 0 - 2, 0, 0 - 3, 0 - 2, 1, 0, 0 - 3, 0 - 1, 0, 0 - 1, 0 - 2, 0 - 1, 0 - 2, 0, 3, 0 - 1>>,
       <<0 - 1, 0, 0, 2, 0 - 4, 2, 5, 0 - 2, 0, 0 - 3, 0 - 3, 1, 0 - 2, 0 - 3, 0 - 1, 0, 0 - 1, 0 - 3, 0 - 2, 0 - 2, 1, 4, 0 - 1>>,
       <<0, 0 - 2, 0, 0 - 1, 0 - 3, 0 - 2, 0 - 2, 6, 0 - 2, 0 - 4, 0 - 4, 0 - 2, 0 - 3, 0 - 3, 0 - 2, 0, 0 - 2, 0 - 2, 0 - 3, 0 - 3, 0 - 1, 0 - 2, 0 - 1>>,
       <<0 - 2, 0, 1, 0 - 1, 0 - 3, 0, 0, 0 - 2, 8, 0 - 3, 0 - 3, 0 - 1, 0 - 2, 0 - 1, 0 - 2, 0 - 1, 0 - 2, 0 - 2, 2, 0 - 3, 0, 0, 0 - 1>>,
       <<0 - 1, 0 - 3, 0 - 3, 0 - 3, 0 - 1, 0 - 3, 0 - 3, 0 - 4, 0 - 3, 4, 2, 0 - 3, 1, 0, 0 - 3, 0 - 2, 0 - 1, 0 - 3, 0 - 1, 3, 0 - 3, 0 - 3, 0 - 1>>,
       <<0 - 1, 0 - 2, 0 - 3, 0 - 4, 0 - 1, 0 - 2, 0 - 3, 0 - 4, 0 - 3, 2, 4, 0 - 2, 2, 0, 0 - 3, 0 - 2, 0 - 1, 0 - 2, 0 - 1, 1, 0 - 4, 0 - 3, 0 - 1>>,
       <<0 - 1, 2, 0, 0 - 1, 0 - 3, 1, 1, 0 - 2, 0 - 1, 0 - 3, 0 - 2, 5, 0 - 1, 0 - 3, 0 - 1, 0, 0 - 1, 0 - 3, 0 - 2, 0 - 2, 0, 1, 0 - 1>>,
       <<0 - 1, 0 - 1, 0 - 2, 0 - 3, 0 - 1, 0, 0 - 2, 0 - 3, 0 - 2, 1, 2, 0 - 1, 5, 0, 0 - 2, 0 - 1, 0 - 1, 0 - 1, 0 - 1, 1, 0 - 3, 0 - 1, 0 - 1>>,
       <<0 - 2, 0 - 3, 0 - 3, 0 - 3, 0 - 2, 0 - 3, 0 - 3, 0 - 3, 0 - 1, 0, 0, 0 - 3, 0, 6, 0 - 4, 0 - 2, 0 - 2, 1, 3, 0 - 1, 0 - 3, 0 - 3, 0 - 1>>,
       <<0 - 1, 0 - 2, 0 - 2, 0 - 1, 0 - 3, 0 - 1, 0 - 1, 0 - 2, 0 - 2, 0 - 3, 0 - 3, 0 - 1, 0 - 2, 0 - 4, 7, 0 - 1, 0 - 1, 0 - 4, 0 - 3, 0 - 2, 0 - 2, 0 - 1, 0 - 2>>,
       <<1, 0 - 1, 1, 0, 0 - 1, 0, 0, 0, 0 - 1, 0 - 2, 0 - 2, 0, 0 - 1, 0 - 2, 0 - 1, 4, 1, 0 - 3, 0 - 2, 0 - 2, 0, 0, 0>>,
       <<0, 0 - 1, 0, 0 - 1, 0 - 1, 0 - 1, 0 - 1, 0 - 2, 0 - 2, 0 - 1, 0 - 1, 0 - 1, 0 - 1, 0 - 2, 0 - 1, 1, 5, 0 - 2, 0 - 2, 0, 0 - 1, 0 - 1, 0>>,
       <<0 - 3, 0 - 3, 0 - 4, 0 - 4, 0 - 2, 0 - 2, 0 - 3, 0 - 2, 0 - 2, 0 - 3, 0 - 2, 0 - 3, 0 - 1, 1, 0 - 4, 0 - 3, 0 - 2, 11, 2, 0 - 3, 0 - 4, 0 - 3, 0 - 2>>,
       <<0 - 2, 0 - 2, 0 - 2, 0 - 3, 0 - 2, 0 - 1, 0 - 2, 0 - 3, 2, 0 - 1, 0 - 1, 0 - 2, 0 - 1, 3, 0 - 3, 0 - 2, 0 - 2, 2, 7, 0 - 1, 0 - 3, 0 - 2, 0 - 1>>,
       <<0, 0 - 3, 0 - 3, 0 - 3, 0 - 1, 0 - 2, 0 - 2, 0 - 3, 0 - 3, 3, 1, 0 - 2, 1, 0 - 1, 0 - 2, 0 - 2, 0, 0 - 3, 0 - 1, 4, 0 - 3, 0 - 2, 0 - 1>>,
       <<0 - 2, 0 - 1, 3, 4, 0 - 3, 0, 1, 0 - 1, 0, 0 - 3, 0 - 4, 0, 0 - 3, 0 - 3, 0 - 2, 0, 0 - 1, 0 - 4, 0 - 3, 0 - 3, 4, 1, 0 - 1>>,
       <<0 - 1, 0, 0, 1, 0 - 3, 3, 4, 0 - 2, 0, 0 - 3, 0 - 3, 1, 0 - 1, 0 - 3, 0 - 1, 0, 0 - 1, 0 - 3, 0 - 2, 0 - 2, 1, 4, 0 - 1>>,
       <<0, 0 - 1, 0 - 1, 0 - 1, 0 - 2, 0 - 1, 0 - 1, 0 - 1, 0 - 1, 0 - 1, 0 - 1, 0 - 1, 0 - 1, 0 - 1, 0 - 2, 0, 0, 0 - 2, 0 - 1, 0 - 1, 0 - 1, 0 - 1, 0 - 1>>
    >>

\* The position of residue x in BlosumOrder.
BlosumIndex(x) == CHOOSE i \in 1..Len(BlosumOrder) : BlosumOrder[i] = x

\* The substitution score of a pair of residues.
Subst(x, y) == Blosum62[BlosumIndex(x)][BlosumIndex(y)]

\* The penalty charged for each gap transition.
GapPenalty == 0 - 2

Max3(x, y, z) ==
    IF x >= y /\ x >= z THEN x ELSE IF y >= z THEN y ELSE z

\* Cell (i, j) of a score matrix stored row by row, c cells to a row.
Cell(M, c, i, j) == M[i * c + j + 1]

\* The score matrix with row i completed; M holds the cells before some cell
\* of row i. Row 0 and column 0 are 0: gaps before the first aligned pair
\* cost nothing.
RECURSIVE FillRow(_, _, _, _)
FillRow(M, a, b, i) ==
    LET c == Len(b) + 1
        j == Len(M) - i * c
    IN IF j >= c THEN M
       ELSE FillRow(Append(M,
                      IF i = 0 \/ j = 0 THEN 0
                      ELSE Max3(Cell(M, c, i - 1, j - 1) + Subst(a[i], b[j]),
                                Cell(M, c, i - 1, j) + GapPenalty,
                                Cell(M, c, i, j - 1) + GapPenalty)),
                    a, b, i)

\* The score matrix of (Len(a)+1) x (Len(b)+1) cells, filled row by row; M
\* holds the rows filled so far.
RECURSIVE Fill(_, _, _)
Fill(M, a, b) ==
    LET c == Len(b) + 1
        i == Len(M) \div c
    IN IF i > Len(a) THEN M
       ELSE Fill(FillRow(M, a, b, i), a, b)

\* The predecessor the traceback follows from cell (i, j): diagonal before
\* vertical before horizontal; along row 0 and column 0 the only way back.
\* The variant goes up without looking at scores.
DirectionUpFirst(M, a, b, i, j) ==
    IF i > 0 THEN "up" ELSE "left"

Direction(M, a, b, i, j) ==
    LET c == Len(b) + 1
    IN IF i > 0 /\ j > 0
          /\ Cell(M, c, i, j) = Cell(M, c, i - 1, j - 1) + Subst(a[i], b[j])
       THEN "diag"
       ELSE IF i > 0 /\ (j = 0 \/ Cell(M, c, i, j) = Cell(M, c, i - 1, j) + GapPenalty)
       THEN "up"
       ELSE "left"

\* The traceback from cell (i, j) to cell (0, 0); outA and outB hold the
\* symbols emitted so far.
RECURSIVE Trace(_, _, _, _, _, _, _)
Trace(M, a, b, i, j, outA, outB) ==
    IF i = 0 /\ j = 0 THEN [A |-> outA, B |-> outB]
    ELSE LET d == Direction(M, a, b, i, j)
         IN IF d = "diag"
            THEN Trace(M, a, b, i - 1, j - 1, <<a[i]>> \o outA, <<b[j]>> \o outB)
            ELSE IF d = "up"
            THEN Trace(M, a, b, i - 1, j, <<a[i]>> \o outA, <<"-">> \o outB)
            ELSE Trace(M, a, b, i, j - 1, <<"-">> \o outA, <<b[j]>> \o outB)

NeedlemanWunsch(a, b) ==
    Trace(Fill(<<>>, a, b), a, b, Len(a), Len(b), <<>>, <<>>)

\* The test vectors of TestNeedlemanWunsch, but the last (747 and 736
\* residues).
GoldenVectors ==
  <<
    [seq1 |-> <<"A", "B", "C", "D">>,
     seq2 |-> <<"A", "B", "C", "D">>,
     out1 |-> <<"A", "B", "C", "D">>,
     out2 |-> <<"A", "B", "C", "D">>],
    [seq1 |-> <<"G", "H", "I", "K", "L", "M", "N", "P", "Q", "R">>,
     seq2 |-> <<"G", "A", "A", "A", "H", "I", "K", "L", "M", "N">>,
     out1 |-> <<"-", "-", "-", "G", "H", "I", "K", "L", "M", "N", "P", "Q", "R">>,
     out2 |-> <<"G", "A", "A", "A", "H", "I", "K", "L", "M", "N", "-", "-", "-">>],
    [seq1 |-> <<"G", "H", "I", "K", "L", "M", "N", "P", "Q", "R", "S", "T", "V",
              "W">>,
     seq2 |-> <<"G", "A", "A", "A", "H", "I", "K", "L", "M", "N", "P", "Q", "R",
              "S", "T", "V", "W">>,
     out1 |-> <<"-", "-", "-", "G", "H", "I", "K", "L", "M", "N", "P", "Q", "R",
              "S", "T", "V", "W">>,
     out2 |-> <<"G", "A", "A", "A", "H", "I", "K", "L", "M", "N", "P", "Q", "R",
              "S", "T", "V", "W">>],
    [seq1 |-> <<"X", "X", "X", "X", "X", "X", "X", "X", "X", "X", "X", "X", "X",
              "X", "X", "X", "X", "X", "X", "X", "X", "X", "X", "X", "X", "X", "X",
              "X", "X", "X", "X", "X", "X", "X", "X", "X", "X", "X", "X", "X", "X",
              "X", "X", "X", "X", "X", "X", "X", "X", "X", "X", "X", "X", "X", "X",
              "X", "X", "X", "X", "X", "X", "X">>,
     seq2 |-> <<"X", "X", "X", "X", "X", "X", "X", "X", "X", "X", "X", "X", "X",
              "X", "X", "X", "X", "X", "X", "X", "X", "X", "X", "X", "X", "X", "X",
              "X", "X", "X", "X", "X", "X", "X", "X", "X", "X", "X", "X", "X", "X",
              "X", "X", "X", "X", "X", "X", "X", "X", "X", "X", "X", "X", "X", "X",
              "X", "X", "X", "X", "X", "X", "X">>,
     out1 |-> <<"X", "X", "X", "X", "X", "X", "X", "X", "X", "X", "X", "X", "X",
              "X", "X", "X", "X", "X", "X", "X", "X", "X", "X", "X", "X", "X", "X",
              "X", "X", "X", "X", "X", "X", "X", "X", "X", "X", "X", "X", "X", "X",
              "X", "X", "X", "X", "X", "X", "X", "X", "X", "X", "X", "X", "X", "X",
              "X", "X", "X", "X", "X", "X", "X">>,
     out2 |-> <<"X", "X", "X", "X", "X", "X", "X", "X", "X", "X", "X", "X", "X",
              "X", "X", "X", "X", "X", "X", "X", "X", "X", "X", "X", "X", "X", "X",
              "X", "X", "X", "X", "X", "X", "X", "X", "X", "X", "X", "X", "X", "X",
              "X", "X", "X", "X", "X", "X", "X", "X", "X", "X", "X", "X", "X", "X",
              "X", "X", "X", "X", "X", "X", "X">>],
    [seq1 |-> <<"N", "N", "N", "N", "N", "N", "N", "N">>,
     seq2 |-> <<"N", "N", "N", "N", "N", "N", "N", "N">>,
     out1 |-> <<"N", "N", "N", "N", "N", "N", "N", "N">>,
     out2 |-> <<"N", "N", "N", "N", "N", "N", "N", "N">>],
    [seq1 |-> <<"N", "N", "N", "N", "N", "N", "N", "N", "N", "N", "N", "N", "N",
              "N", "N", "N", "N", "N", "N", "N", "N", "N", "N", "N", "N", "N", "N",
              "N", "N", "N", "N", "N", "N", "N", "N", "N", "N">>,
     seq2 |-> <<"N", "N", "N", "N", "N", "N", "N", "N", "N", "N", "N", "N", "N",
              "N", "N", "N", "N", "N", "N", "N", "N", "N", "N", "N", "N", "N", "N",
              "N", "N", "N", "N", "N", "N", "N", "N", "N", "N">>,
     out1 |-> <<"N", "N", "N", "N", "N", "N", "N", "N", "N", "N", "N", "N", "N",
              "N", "N", "N", "N", "N", "N", "N", "N", "N", "N", "N", "N", "N", "N",
              "N", "N", "N", "N", "N", "N", "N", "N", "N", "N">>,
     out2 |-> <<"N", "N", "N", "N", "N", "N", "N", "N", "N", "N", "N", "N", "N",
              "N", "N", "N", "N", "N", "N", "N", "N", "N", "N", "N", "N", "N", "N",
              "N", "N", "N", "N", "N", "N", "N", "N", "N", "N">>],
    [seq1 |-> <<"A", "B", "C", "D", "E", "F", "G", "W", "X", "Y", "Z">>,
     seq2 |-> <<"A", "B", "C", "D", "E", "F", "M", "N", "P", "Q", "R", "S", "T",
              "Z", "A", "B", "E", "G", "W", "X", "Y", "Z">>,
     out1 |-> <<"A", "B", "C", "D", "E", "F", "-", "-", "-", "-", "-", "-", "-",
              "-", "-", "-", "-", "G", "W", "X", "Y", "Z">>,
     out2 |-> <<"A", "B", "C", "D", "E", "F", "M", "N", "P", "Q", "R", "S", "T",
              "Z", "A", "B", "E", "G", "W", "X", "Y", "Z">>]
  >>

\* Every sequence of up to MaxSeqLen residues of NWResidues.
NWInputs == UNION { [1..n -> NWResidues] : n \in 0..MaxSeqLen }

\* The pairs NeedlemanWunsch is called with: every pair of NWInputs and the
\* pairs of the test vectors.
NWPairs ==
    (NWInputs \X NWInputs)
        \cup { <<GoldenVectors[t].seq1, GoldenVectors[t].seq2>> : t \in 1..Len(GoldenVectors) }

NInit ==
    /\ \E p \in NWPairs : nwA = p[1] /\ nwB = p[2]
    /\ nwOut = NoAlignment
    /\ HIdle
    /\ FIdle

\* aligned := NeedlemanWunsch(s1, s2)
Align ==
    /\ nwOut = NoAlignment
    /\ nwOut' = NeedlemanWunsch(nwA, nwB)
    /\ UNCHANGED <<nwA, nwB, hvars, fvars>>

NNext == Align

SpecNW == NInit /\ [][NNext]_vars

(***************************************************************************)
(* Properties of HMM.Slice.                                                *)
(***************************************************************************)
\* The transitions the last node of a slice must carry.
FixedLast ==
    [MM |-> 0, MI |-> MinProb, MD |-> MinProb, IM |-> 0, II |-> MinProb,
     DM |-> 0, DD |-> MinProb]

\* The last operation was Slice(start, end) with 0 <= start < end <= len(Nodes).
ValidSlice ==
    /\ hlast.op = "slice"
    /\ 0 <= hlast.start
    /\ hlast.start < hlast.end
    /\ hlast.end <= hlast.srclen

\* The last operation was Slice(start, end) outside that range.
InvalidSlice ==
    /\ hlast.op = "slice"
    /\ (hlast.start < 0 \/ hlast.end > hlast.srclen \/ hlast.start >= hlast.end)

\* Every HMM that existed before the last operation reads as it did then.
SourcesUnchanged ==
    \A i \in 1..Len(hlast.before) : View(arrays, heap, hmms[i]) = hlast.before[i]

\* C1: Slice(start, end) with 0 <= start < end <= len(Nodes) returns an HMM of
\* end-start nodes whose last node has transitions (0, MinProb, MinProb, 0,
\* MinProb, 0, MinProb); every other field of every node, and the transitions
\* of the nodes before the last, equal those of source nodes start..end-1.
C1_SliceContract ==
    ValidSlice =>
        /\ hlast.ok
        /\ LET r == View(arrays, heap, hmms[hlast.res])
               s == hlast.before[hlast.src]
               n == hlast.end - hlast.start
           IN /\ Len(r.Nodes) = n
              /\ r.Nodes[n].Transitions = FixedLast
              /\ \A k \in 1..n :
                    LET x == r.Nodes[k]
                        y == s.Nodes[hlast.start + k]
                    IN /\ x.HMM = y.HMM
                       /\ x.Residue = y.Residue
                       /\ x.NodeNum = y.NodeNum
                       /\ x.InsEmit = y.InsEmit
                       /\ x.MatEmit = y.MatEmit
                       /\ x.NeffM = y.NeffM
                       /\ x.NeffI = y.NeffI
                       /\ x.NeffD = y.NeffD
                       /\ (k < n => x.Transitions = y.Transitions)

\* A slice of two or more nodes whose first and last source nodes had
\* transitions other than the fixed ones, and different from each other.
C1_Witness ==
    /\ ValidSlice
    /\ hlast.ok
    /\ hlast.end - hlast.start >= 2
    /\ hlast.before[hlast.src].Nodes[hlast.end].Transitions # FixedLast
    /\ hlast.before[hlast.src].Nodes[hlast.start + 1].Transitions # FixedLast
    /\ hlast.before[hlast.src].Nodes[hlast.start + 1].Transitions
          # hlast.before[hlast.src].Nodes[hlast.end].Transitions

\* C2: a Slice call leaves every existing HMM as it was: node list, every
\* node's transition table, alphabet and null table, also for slices of
\* slices and overlapping ranges.
C2_SliceFrame ==
    hlast.op = "slice" => SourcesUnchanged

\* A slice taken from a slice, overlapping it, whose node end-1 in the source
\* had transitions other than those written into the copy.
C2_Witness ==
    /\ hlast.op = "slice"
    /\ hlast.ok
    /\ parent[hlast.src] # 0
    /\ hlast.before[hlast.src].Nodes[hlast.end].Transitions # FixedLast

\* C3: Slice(start, end) fails whenever start < 0, end > len(Nodes) or
\* start >= end, and leaves the source unchanged.
C3_SliceRangeError ==
    InvalidSlice => (~hlast.ok /\ SourcesUnchanged)

\* C10: after h2 = Slice(start, end), a write to an emission table or to the
\* null table through one of the two models is not visible through the other.
C10_NoSharedTables ==
    hlast.op = "write" =>
        \A i \in 1..Len(hmms) :
            (i # hlast.via /\ (parent[i] = hlast.via \/ parent[hlast.via] = i))
                => View(arrays, heap, hmms[i]) = hlast.before[i]

(***************************************************************************)
(* Properties of FrequencyProfile.                                         *)
(***************************************************************************)
\* The profile the last Add was called on, as it is now.
AddTarget == IF flast.target = "fp" THEN fp ELSE nullfp

\* The residue whose count Add increments for residue r under an alphabet.
Counted(alphabet, r) == IF r \in SeqRange(alphabet) THEN r ELSE "X"

\* Add can count residue r under the alphabet.
Countable(alphabet, r) == r \in SeqRange(alphabet) \/ "X" \in SeqRange(alphabet)

\* C4: Add(s) with len(s) different from the column count fails with the
\* length-mismatch error and leaves every count unchanged.
C4_AddLengthMismatch ==
    (flast.op = "add" /\ Len(flast.s) # Len(flast.before.Freqs)) =>
        (flast.panic = "length" /\ AddTarget = flast.before)

\* Add with a sequence longer than a profile that already holds counts.
C4_Witness ==
    /\ flast.op = "add"
    /\ Len(flast.s) > Len(flast.before.Freqs)
    /\ \E c \in 1..Len(flast.before.Freqs) : freqTotal(flast.before.Freqs[c]) > 0

\* C5: when Add(s) fails with the unrecognized-residue error, no count of any
\* column has changed.
C5_AddAtomic ==
    (flast.op = "add" /\ flast.panic = "residue") => AddTarget = flast.before

\* C6: Add counts each position by itself: s[c] if it is in the alphabet,
\* otherwise 'X' if the alphabet has it, and nothing else in column c; Add
\* fails with the unrecognized-residue error exactly when some position can
\* be counted neither way.
C6_AddPerPosition ==
    (flast.op = "add" /\ Len(flast.s) = Len(flast.before.Freqs)) =>
        LET alpha == flast.before.Alphabet
            n == Len(flast.s)
            bad == \E c \in 1..n : ~Countable(alpha, flast.s[c])
        IN /\ flast.panic = (IF bad THEN "residue" ELSE "none")
           /\ ~bad =>
                /\ Len(AddTarget.Freqs) = n
                /\ \A c \in 1..n :
                      AddTarget.Freqs[c] =
                          [r \in SeqRange(alpha) |->
                              flast.before.Freqs[c][r]
                                + (IF r = Counted(alpha, flast.s[c]) THEN 1 ELSE 0)]

\* An Add that counted one position as the wildcard and another as itself.
C6_Witness ==
    /\ flast.op = "add"
    /\ flast.panic = "none"
    /\ \E c, d \in 1..Len(flast.s) :
          /\ flast.s[c] \notin SeqRange(flast.before.Alphabet)
          /\ flast.s[d] \in SeqRange(flast.before.Alphabet)
          /\ flast.s[d] # "X"
          /\ AddTarget.Freqs[c]["X"] = flast.before.Freqs[c]["X"] + 1

\* Only Add(s) was called on fp since it was created, k >= 1 times, with one s
\* of as many residues as fp has columns.
SameAdds ==
    /\ calls.n >= 1
    /\ calls.same
    /\ Len(calls.s) = Len(fp.Freqs)

\* C7 as stated: after k calls Add(s) on a fresh profile, with len(s) the
\* column count, column c counts k for s[c] and 0 for every other residue.
C7_RepeatedAdd ==
    SameAdds =>
        \A c \in 1..Len(fp.Freqs) :
            /\ Count(fp.Freqs[c], calls.s[c]) = calls.n
            /\ \A r \in SeqRange(fp.Alphabet) \ {calls.s[c]} : fp.Freqs[c][r] = 0

\* C7 amended: the same for every s of which each residue is in the alphabet
\* or can be counted as the wildcard; column c counts k for s[c] if it is in
\* the alphabet and for 'X' otherwise, 0 for every other residue, k in total.
C7_RepeatedAddCounted ==
    (SameAdds /\ \A c \in 1..Len(calls.s) : Countable(fp.Alphabet, calls.s[c])) =>
        \A c \in 1..Len(fp.Freqs) :
            /\ fp.Freqs[c][Counted(fp.Alphabet, calls.s[c])] = calls.n
            /\ \A r \in SeqRange(fp.Alphabet) \ {Counted(fp.Alphabet, calls.s[c])} :
                  fp.Freqs[c][r] = 0
            /\ freqTotal(fp.Freqs[c]) = calls.n

\* Two calls Add(s) with an s of two different residues of the alphabet.
C7_Witness ==
    /\ SameAdds
    /\ calls.n >= 2
    /\ Len(calls.s) >= 2
    /\ \A c \in 1..Len(calls.s) : calls.s[c] \in SeqRange(fp.Alphabet)
    /\ calls.s[1] # calls.s[2]
    /\ fp.Freqs[1][calls.s[1]] = calls.n

\* C8: Profile(null) with a one-column null model of an equal alphabet returns
\* a Profile of as many columns, in which the emission of r in column c is
\* MinProb whenever r's count in column c or in the null column is 0; a column
\* of total 0 has every emission MinProb whatever the background.
C8_ProfileMinProb ==
    (flast.op = "profile"
       /\ Len(nullfp.Freqs) = 1 /\ AlphabetEquals(fp.Alphabet, nullfp.Alphabet)) =>
        /\ flast.panic = "none"
        /\ Len(prof.Emissions) = Len(fp.Freqs)
        /\ \A c \in 1..Len(fp.Freqs) :
              /\ DOMAIN prof.Emissions[c] = SeqRange(fp.Alphabet)
              /\ \A r \in SeqRange(fp.Alphabet) :
                    (fp.Freqs[c][r] = 0 \/ nullfp.Freqs[1][r] = 0)
                        => prof.Emissions[c][r] = MinProb
              /\ freqTotal(fp.Freqs[c]) = 0 =>
                    \A r \in SeqRange(fp.Alphabet) : prof.Emissions[c][r] = MinProb

\* A Profile in which a residue never seen in a column stands beside a
\* residue with a computed log-odds score.
C8_Witness ==
    /\ flast.op = "profile"
    /\ flast.panic = "none"
    /\ \E c \in 1..Len(fp.Freqs) :
          \E r, q \in SeqRange(fp.Alphabet) :
              /\ fp.Freqs[c][r] = 0
              /\ prof.Emissions[c][r] = MinProb
              /\ prof.Emissions[c][q] # MinProb

(***************************************************************************)
(* Properties of NeedlemanWunsch.                                          *)
(***************************************************************************)
\* The alignment of every test vector is the one its test expects.
GoldenAgree ==
    \A t \in 1..Len(GoldenVectors) :
        (nwOut # NoAlignment /\ nwA = GoldenVectors[t].seq1 /\ nwB = GoldenVectors[t].seq2)
            => (nwOut.A = GoldenVectors[t].out1 /\ nwOut.B = GoldenVectors[t].out2)

\* C9: for a non-empty s, NeedlemanWunsch(s, s) returns (s, s): both outputs
\* equal s and hold no gap.
C9_AlignIdentity ==
    (nwOut # NoAlignment /\ nwA = nwB /\ nwA # <<>>) =>
        (nwOut.A = nwA /\ nwOut.B = nwA)

\* An alignment of a sequence of wildcards with itself.
C9_Witness ==
    /\ nwOut # NoAlignment
    /\ nwA = nwB
    /\ Len(nwA) >= 2
    /\ \A i \in 1..Len(nwA) : nwA[i] = "X"

====
